---- MODULE Spec2Model ----
(***************************************************************************)
(* Model of the ingestion client of go-graphkb:                            *)
(*   internal/client/transaction.go  (Transaction.Commit and               *)
(*   withRetryOnTooManyRequests)                                           *)
(* together with the collaborators Commit calls (the differ, ChunkSlice,   *)
(* the worker pool and the per-source store behind the Graph API), which   *)
(* are modelled from the specification.                                    *)
(***************************************************************************)
EXTENDS Integers, Sequences, FiniteSets, Bags, TLC

(***************************************************************************)
(* Bounds of the model.                                                    *)
(***************************************************************************)
MaxChunkSize == 2
MaxParallelization == 2
MaxCommits == 2
MaxRetriesArg == 12
MaxCallers == 3
MaxRows == 8

(***************************************************************************)
(* Program constants.                                                      *)
(***************************************************************************)
\* transaction.go:107,122,147,162: withRetryOnTooManyRequests(..., 10)
CommitMaxRetries == 10
\* transaction.go:57: ... * 15) * time.Second
BackoffUnit == 15

(***************************************************************************)
(* The universe of assets and relations the graphs are drawn from.         *)
(***************************************************************************)
Assets == {"a", "b", "c"}
Relations == {<<"a", "r", "b">>, <<"b", "r", "c">>}

Endpoints(r) == {r[1], r[3]}

\* knowledge.Graph: a set of assets and a set of relations, every relation's
\* endpoints being in the asset set.
Closed(g) == \A r \in g.relations : Endpoints(r) \subseteq g.assets

Graphs == {g \in [assets : SUBSET Assets, relations : SUBSET Relations] : Closed(g)}

\* knowledge.NewGraph()
NewGraph == [assets |-> {}, relations |-> {}]

\* the nil *knowledge.Graph returned with an error
NilGraph == [nil |-> TRUE]

(***************************************************************************)
(* Pure helpers.                                                           *)
(***************************************************************************)
RECURSIVE SetToSeq(_)
SetToSeq(S) == IF S = {} THEN <<>>
               ELSE LET x == CHOOSE y \in S : TRUE IN <<x>> \o SetToSeq(S \ {x})

Range(s) == {s[i] : i \in DOMAIN s}

Min(x, y) == IF x < y THEN x ELSE y

\* knowledge.GenerateGraphUpdatesBulk(current, new): the four lists of the bulk
GenerateGraphUpdatesBulk(cur, new) ==
    [assetUpserts     |-> SetToSeq(new.assets \ cur.assets),
     assetRemovals    |-> SetToSeq(cur.assets \ new.assets),
     relationUpserts  |-> SetToSeq(new.relations \ cur.relations),
     relationRemovals |-> SetToSeq(cur.relations \ new.relations)]

\* utils.ChunkSlice(slice, chunkSize): consecutive chunks of at most n items
RECURSIVE ChunkSlice(_, _)
ChunkSlice(s, n) ==
    IF Len(s) = 0 THEN <<>>
    ELSE <<SubSeq(s, 1, Min(n, Len(s)))>> \o ChunkSlice(SubSeq(s, Min(n, Len(s)) + 1, Len(s)), n)

\* one chunk task per chunk, each with the request of its kind
TasksOf(kind, chunks) == [i \in DOMAIN chunks |-> [kind |-> kind, items |-> chunks[i]]]

(***************************************************************************)
(* withRetryOnTooManyRequests (transaction.go:52-68).                      *)
(***************************************************************************)
\* the errors a request can return; "nil" is success
Errors == {"Overload", "Network", "SchemaViolation", "Auth"}
Outcomes == {"nil"} \cup Errors

\* math.Pow(1.01, trials) in fixed point, scaled by 10^6 (rounded down at
\* every multiplication; exact enough to truncate for the trials reached)
RECURSIVE Pow101(_)
Pow101(trials) == IF trials = 0 THEN 1000000 ELSE (Pow101(trials - 1) * 101) \div 100

\* line 57: time.Duration(int(math.Pow(1.01, float64(trials)))*15) * time.Second,
\* in seconds; int() truncates the power before the multiplication
BackoffTime(trials) == (Pow101(trials) \div 1000000) * BackoffUnit

\* variant: the trials started over instead of the return of line 65
WithRetryIterationStartingOver(trials, err, maxRetries) ==
    IF err = "nil"
    THEN [trials |-> trials, returned |-> TRUE, result |-> "nil", slept |-> -1]
    ELSE [trials   |-> (trials + 1) % maxRetries,
          returned |-> FALSE,
          result   |-> "none",
          slept    |-> BackoffTime(trials)]

\* variant: the return of line 61 missing, a success counted like a failure
WithRetryIterationWithoutReturn(trials, err, maxRetries) ==
    [trials   |-> trials + 1,
     returned |-> (trials + 1 = maxRetries),
     result   |-> IF trials + 1 = maxRetries THEN "TooManyRetries" ELSE "none",
     slept    |-> IF err = "nil" THEN -1 ELSE BackoffTime(trials)]

\* One iteration of the loop of lines 54-67, fn() having returned err:
\* the trials afterwards, whether the function returned and with what, and
\* the backoff slept (-1: no sleep).
WithRetryIteration(trials, err, maxRetries) ==
    IF err = "nil"
    THEN [trials |-> trials, returned |-> TRUE, result |-> "nil", slept |-> -1]
    ELSE [trials   |-> trials + 1,
          returned |-> (trials + 1 = maxRetries),
          result   |-> IF trials + 1 = maxRetries THEN "TooManyRetries" ELSE "none",
          slept    |-> BackoffTime(trials)]

(***************************************************************************)
(* State.                                                                  *)
(***************************************************************************)
VARIABLES
    store,            \* the subgraph the server stores for the source
    cached,           \* the graph the source cached from its last successful Commit
    commits,          \* number of transactions the source has created
    currentGraph,     \* Transaction.currentGraph
    newGraph,         \* Transaction.newGraph
    chunkSize,        \* Transaction.chunkSize
    parallelization,  \* Transaction.parallelization
    pc,               \* position of Commit: "ready", "A", "B", "done"
    bulk,             \* the bulk computed at line 81
    futures,          \* the futures of the current phase, in dispatch order
    waited,           \* number of futures already received by the wait loop
    running,          \* the chunk tasks held by workers
    ret,              \* what Commit returned
    schemaUploads,    \* number of UpdateSchema requests of this Commit
    requests,         \* kinds of chunk requests issued by this Commit
    clean,            \* the Commit started with store = currentGraph and no task running
    populated,        \* the new graph as populated when Commit was called
    schemaErr,        \* what UpdateSchema returned to this Commit ("none" before)
    failedPhase,      \* the phase of the first chunk task of this Commit that gave up ("none" before)
    sent,             \* the bag of chunk requests of this Commit that succeeded
    cancelled,        \* the context owning the ingestion has been cancelled
    r_maxRetries,     \* an isolated call of withRetryOnTooManyRequests: its argument
    r_trials,         \*   its local trials
    r_calls,          \*   number of calls of fn so far
    r_successes,      \*   number of calls of fn that returned nil
    r_lastErr,        \*   what the last call of fn returned
    r_sleeps,         \*   number of sleeps so far
    r_lastSleep,      \*   the last backoff slept, in seconds
    r_result,         \*   "none" while looping, then "nil" or "TooManyRetries"
    mutex,            \* Transaction.mutex: 0 when unlocked, else the caller holding it
    b_pc,             \* each caller of Bind/Relate: "idle", "waiting", "locked", "bound"
    b_op,             \* each caller's operation: "none", "Bind" or "Relate"
    assetRows,        \* the store shared by the sources: the assets table
    provRows,         \* the assets_by_source table: pairs <<source, asset>>
    p_op,             \* each source's store operation under way and its position
    q_pc,             \* the query command: "start", "reading", "done", "fatal"
    q_fired,          \* the 30 s deadline of the query command has fired
    q_rows,           \* rows the cursor still holds
    q_count           \* resultsCount

commitVars == <<store, cached, commits, currentGraph, newGraph, chunkSize, parallelization,
                pc, bulk, futures, waited, running, ret, schemaUploads, requests, clean,
                populated, schemaErr, failedPhase, sent, cancelled>>
retryVars == <<r_maxRetries, r_trials, r_calls, r_successes, r_lastErr, r_sleeps, r_lastSleep, r_result>>
bindVars == <<mutex, b_pc, b_op>>
provVars == <<assetRows, provRows, p_op>>
queryVars == <<q_pc, q_fired, q_rows, q_count>>
extVars == <<provVars, queryVars>>
vars == <<commitVars, retryVars, bindVars, extVars>>

NoBulk == [assetUpserts |-> <<>>, assetRemovals |-> <<>>,
           relationUpserts |-> <<>>, relationRemovals |-> <<>>]
NoRet == [graph |-> NilGraph, err |-> "none"]

\* Variants of the dispatch loops with a plausible slip, used to show that
\* the properties below depend on the dispatch order of Commit.
\* asset removals dispatched in phase A instead of phase B
TasksAWithAssetRemovals ==
    TasksOf("DeleteRelations", ChunkSlice(bulk.relationRemovals, chunkSize))
    \o TasksOf("DeleteAssets", ChunkSlice(bulk.assetRemovals, chunkSize))
    \o TasksOf("InsertAssets", ChunkSlice(bulk.assetUpserts, chunkSize))
\* an InsertAssets request sent even when there is nothing to upsert
TasksAWithEmptyRequest ==
    TasksOf("DeleteRelations", ChunkSlice(bulk.relationRemovals, chunkSize))
    \o (IF Len(bulk.assetUpserts) = 0
        THEN <<[kind |-> "InsertAssets", items |-> <<>>]>>
        ELSE TasksOf("InsertAssets", ChunkSlice(bulk.assetUpserts, chunkSize)))
\* the loop over assetRemovalsChunks left out
TasksBWithoutAssetRemovals ==
    TasksOf("InsertRelations", ChunkSlice(bulk.relationUpserts, chunkSize))

\* the asset removals sent with the request of the asset upserts
TasksBWithInsertAssets ==
    TasksOf("InsertAssets", ChunkSlice(bulk.assetRemovals, chunkSize))
    \o TasksOf("InsertRelations", ChunkSlice(bulk.relationUpserts, chunkSize))

\* lines 96-99 and the two dispatch loops of each phase, in dispatch order
TasksA == TasksOf("DeleteRelations", ChunkSlice(bulk.relationRemovals, chunkSize))
          \o TasksOf("InsertAssets", ChunkSlice(bulk.assetUpserts, chunkSize))
TasksB == TasksOf("DeleteAssets", ChunkSlice(bulk.assetRemovals, chunkSize))
          \o TasksOf("InsertRelations", ChunkSlice(bulk.relationUpserts, chunkSize))
Tasks(phase) == IF phase = "A" THEN TasksA ELSE TasksB

\* the tasks the worker pool of the current Commit holds
InPool == {t \in running : t.commit = commits}

(***************************************************************************)
(* The store behind the Graph API, for one source (spec 4.3).              *)
(***************************************************************************)
\* a relation upsert resolves both endpoint ids, which must exist
CanApply(st, kind, items) ==
    kind = "InsertRelations" => \A r \in Range(items) : Endpoints(r) \subseteq st.assets

ApplyRequest(st, kind, items) ==
    CASE kind = "InsertAssets"    -> [st EXCEPT !.assets = @ \cup Range(items)]
      [] kind = "DeleteAssets"    -> [st EXCEPT !.assets = @ \ Range(items)]
      [] kind = "InsertRelations" -> [st EXCEPT !.relations = @ \cup Range(items)]
      [] kind = "DeleteRelations" -> [st EXCEPT !.relations = @ \ Range(items)]

(***************************************************************************)
(* Initial states: a source whose cache holds the graph of its last        *)
(* successful Commit, which is what the server stores for it, and a        *)
(* transaction created from that cache and populated with a new graph.     *)
(***************************************************************************)
Sources == {"S1", "S2"}

NoOp == [op |-> "none", asset |-> "none"]

\* an empty store and no store operation under way
ProvIdle ==
    /\ assetRows = {}
    /\ provRows = {}
    /\ p_op = [s \in Sources |-> NoOp]

\* the query command not started
QueryIdle ==
    /\ q_pc = "start"
    /\ q_fired = FALSE
    /\ q_rows = 0
    /\ q_count = 0

Callers == 1..MaxCallers

\* no caller of Bind or Relate
BindIdle ==
    /\ mutex = 0
    /\ b_pc = [c \in Callers |-> "idle"]
    /\ b_op = [c \in Callers |-> "none"]

RetryIdle ==
    /\ r_maxRetries = 0
    /\ r_trials = 0
    /\ r_calls = 0
    /\ r_successes = 0
    /\ r_lastErr = "none"
    /\ r_sleeps = 0
    /\ r_lastSleep = -1
    /\ r_result = "none"

Init ==
    /\ cached \in Graphs
    /\ store = cached
    /\ commits = 1
    /\ currentGraph = cached
    /\ newGraph \in Graphs
    /\ chunkSize \in 1..MaxChunkSize
    /\ parallelization \in 1..MaxParallelization
    /\ pc = "ready"
    /\ bulk = NoBulk
    /\ futures = <<>>
    /\ waited = 0
    /\ running = {}
    /\ ret = NoRet
    /\ schemaUploads = 0
    /\ requests = {}
    /\ clean = TRUE
    /\ populated = newGraph
    /\ schemaErr = "none"
    /\ failedPhase = "none"
    /\ sent = EmptyBag
    /\ cancelled = FALSE
    /\ RetryIdle
    /\ BindIdle
    /\ ProvIdle
    /\ QueryIdle

(***************************************************************************)
(* Transaction.Commit (transaction.go:71-184).                             *)
(***************************************************************************)
\* lines 72-99: upload the schema; on failure return the error, otherwise
\* compute the bulk, create the worker pool and chunk the four lists
\* variant: the error of UpdateSchema ignored
SchemaFailedIgnored(err) == FALSE

\* line 75: err != nil
SchemaFailed(err) == err # "nil"

UpdateSchema ==
    /\ pc = "ready"
    /\ schemaUploads' = schemaUploads + 1
    /\ \E err \in {"nil", "Overload"} :
         /\ schemaErr' = err
         /\ IF SchemaFailed(err)
            THEN /\ pc' = "done"
                 /\ ret' = [graph |-> NilGraph, err |-> "UpdateSchema"]
                 /\ UNCHANGED bulk
            ELSE /\ pc' = "A"
                 /\ bulk' = GenerateGraphUpdatesBulk(currentGraph, newGraph)
                 /\ UNCHANGED ret
    /\ UNCHANGED <<store, cached, commits, currentGraph, newGraph, chunkSize,
                   parallelization, futures, waited, running, requests, clean>>
    /\ UNCHANGED <<populated, failedPhase, sent, cancelled>>
    /\ UNCHANGED retryVars
    /\ UNCHANGED extVars
    /\ UNCHANGED bindVars

\* WorkerPool.Exec: hands the task to a free worker (blocks while none is
\* free) and returns its future
\* variant: the pool created with the chunk size
PoolSizeChunk == chunkSize

\* line 89: utils.NewWorkerPool(cgt.parallelization)
PoolSize == parallelization

PoolHasRoom == Cardinality(InPool) < PoolSize

\* lines 101-129 (phase A) and 141-169 (phase B): one iteration of a dispatch loop
Exec(phase) ==
    /\ pc = phase
    /\ Len(futures) < Len(Tasks(phase))
    /\ PoolHasRoom
    /\ LET idx == Len(futures) + 1
           task == Tasks(phase)[idx]
       IN  running' = running \cup {[commit |-> commits, phase |-> phase, idx |-> idx,
                                     kind |-> task.kind, items |-> task.items, trials |-> 0]}
    /\ futures' = Append(futures, "pending")
    /\ UNCHANGED <<store, cached, commits, currentGraph, newGraph, chunkSize,
                   parallelization, pc, bulk, waited, ret, schemaUploads, requests, clean>>
    /\ UNCHANGED <<populated, schemaErr, failedPhase, sent, cancelled>>
    /\ UNCHANGED retryVars
    /\ UNCHANGED extVars
    /\ UNCHANGED bindVars

ExecA == Exec("A")
ExecB == Exec("B")

\* variant: the wait loop not blocking on the future
DeliveredAlways(f) == TRUE

\* err := <-f: the future has been delivered
Delivered(f) == futures[f] # "pending"

\* variant: the error carried by the future dropped
FutureFailedIgnored(f) == FALSE

\* lines 134 and 174: err != nil
FutureFailed(f) == futures[f] = "err"

\* lines 132-137 and 172-177: one iteration of a wait loop; an error ends Commit
Receive(phase) ==
    /\ pc = phase
    /\ Len(futures) = Len(Tasks(phase))
    /\ waited < Len(futures)
    /\ Delivered(waited + 1)
    /\ IF FutureFailed(waited + 1)
       THEN /\ pc' = "done"
            /\ ret' = [graph |-> NilGraph, err |-> "chunk"]
            /\ UNCHANGED waited
       ELSE /\ waited' = waited + 1
            /\ UNCHANGED <<pc, ret>>
    /\ UNCHANGED <<store, cached, commits, currentGraph, newGraph, chunkSize,
                   parallelization, bulk, futures, running, schemaUploads, requests, clean>>
    /\ UNCHANGED <<populated, schemaErr, failedPhase, sent, cancelled>>
    /\ UNCHANGED retryVars
    /\ UNCHANGED extVars
    /\ UNCHANGED bindVars

ReceiveA == Receive("A")
ReceiveB == Receive("B")

\* line 139: every future of phase A was received without error
StartPhaseB ==
    /\ pc = "A"
    /\ Len(futures) = Len(TasksA)
    /\ waited = Len(futures)
    /\ pc' = "B"
    /\ futures' = <<>>
    /\ waited' = 0
    /\ UNCHANGED <<store, cached, commits, currentGraph, newGraph, chunkSize,
                   parallelization, bulk, running, ret, schemaUploads, requests, clean>>
    /\ UNCHANGED <<populated, schemaErr, failedPhase, sent, cancelled>>
    /\ UNCHANGED retryVars
    /\ UNCHANGED extVars
    /\ UNCHANGED bindVars

\* variant: the current graph returned instead of the new one
FinishResultCurrent == [graph |-> currentGraph, err |-> "nil"]

\* lines 181 and 183: g := cgt.newGraph; return g, nil
FinishResult == [graph |-> newGraph, err |-> "nil"]

\* lines 179-183: every future of phase B was received without error; the
\* source caches the graph it is given
Finish ==
    /\ pc = "B"
    /\ Len(futures) = Len(TasksB)
    /\ waited = Len(futures)
    /\ pc' = "done"
    /\ ret' = FinishResult
    /\ newGraph' = NewGraph
    /\ cached' = newGraph
    /\ UNCHANGED <<store, commits, currentGraph, chunkSize, parallelization, bulk,
                   futures, waited, running, schemaUploads, requests, clean>>
    /\ UNCHANGED <<populated, schemaErr, failedPhase, sent, cancelled>>
    /\ UNCHANGED retryVars
    /\ UNCHANGED extVars
    /\ UNCHANGED bindVars

\* A worker runs one iteration of withRetryOnTooManyRequests for its task
\* (the closures of lines 106-112, 121-127, 146-152, 161-167): the request,
\* then the backoff and the count of trials, or the delivery of the future.
Attempt(t) ==
    /\ t \in running
    /\ \E err \in {"nil", "Overload"} :
         /\ err = "nil" => CanApply(store, t.kind, t.items)
         /\ LET it == WithRetryIteration(t.trials, err, CommitMaxRetries)
            IN  /\ store' = IF err = "nil" THEN ApplyRequest(store, t.kind, t.items) ELSE store
                /\ running' = IF it.returned THEN running \ {t}
                              ELSE (running \ {t}) \cup {[t EXCEPT !.trials = it.trials]}
                /\ futures' = IF it.returned /\ t.commit = commits /\ t.phase = pc
                              THEN [futures EXCEPT ![t.idx] = IF it.result = "nil" THEN "nil" ELSE "err"]
                              ELSE futures
                /\ failedPhase' = IF it.result = "TooManyRetries" /\ t.commit = commits
                                     /\ failedPhase = "none"
                                  THEN t.phase ELSE failedPhase
                /\ sent' = IF err = "nil" /\ t.commit = commits
                           THEN sent (+) SetToBag({[kind |-> t.kind, items |-> t.items]})
                           ELSE sent
    /\ requests' = IF t.commit = commits THEN requests \cup {t.kind} ELSE requests
    /\ UNCHANGED <<cached, commits, currentGraph, newGraph, chunkSize, parallelization,
                   pc, bulk, waited, ret, schemaUploads, clean>>
    /\ UNCHANGED <<populated, schemaErr, cancelled>>
    /\ UNCHANGED retryVars
    /\ UNCHANGED extVars
    /\ UNCHANGED bindVars

Work == \E t \in running : Attempt(t)

\* The source creates its next transaction from its cache and populates it.
Begin ==
    /\ pc = "done"
    /\ commits < MaxCommits
    /\ commits' = commits + 1
    /\ currentGraph' = cached
    /\ newGraph' \in Graphs
    /\ chunkSize' \in 1..MaxChunkSize
    /\ parallelization' \in 1..MaxParallelization
    /\ pc' = "ready"
    /\ bulk' = NoBulk
    /\ futures' = <<>>
    /\ waited' = 0
    /\ ret' = NoRet
    /\ schemaUploads' = 0
    /\ requests' = {}
    /\ clean' = (store = cached /\ running = {})
    /\ populated' = newGraph'
    /\ schemaErr' = "none"
    /\ failedPhase' = "none"
    /\ sent' = EmptyBag
    /\ UNCHANGED <<store, cached, running, cancelled>>
    /\ UNCHANGED retryVars
    /\ UNCHANGED extVars
    /\ UNCHANGED bindVars

Next ==
    \/ UpdateSchema
    \/ ExecA
    \/ ReceiveA
    \/ StartPhaseB
    \/ ExecB
    \/ ReceiveB
    \/ Finish
    \/ Work

Spec == Init /\ [][Next]_vars

\* Every request returns and the scheduler runs Commit and the workers.
FairCommit ==
    /\ WF_vars(UpdateSchema)
    /\ WF_vars(ExecA)
    /\ WF_vars(ReceiveA)
    /\ WF_vars(StartPhaseB)
    /\ WF_vars(ExecB)
    /\ WF_vars(ReceiveB)
    /\ WF_vars(Finish)
    /\ WF_vars(Work)

SpecLive == Init /\ [][Next]_vars /\ FairCommit

(***************************************************************************)
(* A Commit whose owner cancels the ingestion while it runs. Commit and    *)
(* withRetryOnTooManyRequests take no context: no step reads cancelled.    *)
(***************************************************************************)
Cancel ==
    /\ ~cancelled
    /\ pc # "done"
    /\ cancelled' = TRUE
    /\ UNCHANGED <<store, cached, commits, currentGraph, newGraph, chunkSize, parallelization,
                   pc, bulk, futures, waited, running, ret, schemaUploads, requests, clean,
                   populated, schemaErr, failedPhase, sent>>
    /\ UNCHANGED retryVars
    /\ UNCHANGED extVars
    /\ UNCHANGED bindVars

NextCancel ==
    \/ Next
    \/ Cancel

SpecCancel == Init /\ [][NextCancel]_vars

(***************************************************************************)
(* A sequence of commits of one source, from an empty cache and an empty   *)
(* store.                                                                  *)
(***************************************************************************)
InitSeq ==
    /\ Init
    /\ cached = NewGraph

NextSeq ==
    \/ Next
    \/ Begin

SpecSeq == InitSeq /\ [][NextSeq]_vars

(***************************************************************************)
(* An isolated call of withRetryOnTooManyRequests(fn, maxRetries), fn      *)
(* returning any outcome at each call.                                     *)
(***************************************************************************)
InitRetry ==
    /\ cached = NewGraph
    /\ store = NewGraph
    /\ commits = 1
    /\ currentGraph = NewGraph
    /\ newGraph = NewGraph
    /\ chunkSize = 1
    /\ parallelization = 1
    /\ pc = "ready"
    /\ bulk = NoBulk
    /\ futures = <<>>
    /\ waited = 0
    /\ running = {}
    /\ ret = NoRet
    /\ schemaUploads = 0
    /\ requests = {}
    /\ clean = TRUE
    /\ populated = NewGraph
    /\ schemaErr = "none"
    /\ failedPhase = "none"
    /\ sent = EmptyBag
    /\ cancelled = FALSE
    /\ r_maxRetries \in 1..MaxRetriesArg
    /\ r_trials = 0
    /\ r_calls = 0
    /\ r_successes = 0
    /\ r_lastErr = "none"
    /\ r_sleeps = 0
    /\ r_lastSleep = -1
    /\ r_result = "none"
    /\ BindIdle
    /\ ProvIdle
    /\ QueryIdle

\* lines 54-67: one iteration of the loop
RetryIteration ==
    /\ r_result = "none"
    /\ \E err \in Outcomes :
         LET it == WithRetryIteration(r_trials, err, r_maxRetries)
         IN  /\ r_lastErr' = err
             /\ r_calls' = r_calls + 1
             /\ r_successes' = IF err = "nil" THEN r_successes + 1 ELSE r_successes
             /\ r_trials' = it.trials
             /\ r_sleeps' = IF it.slept >= 0 THEN r_sleeps + 1 ELSE r_sleeps
             /\ r_lastSleep' = IF it.slept >= 0 THEN it.slept ELSE r_lastSleep
             /\ r_result' = it.result
    /\ UNCHANGED r_maxRetries
    /\ UNCHANGED commitVars
    /\ UNCHANGED bindVars
    /\ UNCHANGED extVars

NextRetry == RetryIteration

SpecRetry == InitRetry /\ [][NextRetry]_vars

(***************************************************************************)
(* Transaction.Bind and Transaction.Relate (transaction.go:37-49), called  *)
(* by concurrent callers populating the new graph of a transaction.        *)
(***************************************************************************)
InitBind ==
    /\ cached = NewGraph
    /\ store = cached
    /\ commits = 1
    /\ currentGraph = cached
    /\ newGraph = NewGraph
    /\ chunkSize = 1
    /\ parallelization = 1
    /\ pc = "ready"
    /\ bulk = NoBulk
    /\ futures = <<>>
    /\ waited = 0
    /\ running = {}
    /\ ret = NoRet
    /\ schemaUploads = 0
    /\ requests = {}
    /\ clean = TRUE
    /\ populated = NewGraph
    /\ schemaErr = "none"
    /\ failedPhase = "none"
    /\ sent = EmptyBag
    /\ cancelled = FALSE
    /\ RetryIdle
    /\ BindIdle
    /\ ProvIdle
    /\ QueryIdle

\* a caller enters Relate (line 38) or Bind (line 45)
Call(c) ==
    /\ b_pc[c] = "idle"
    /\ \E op \in {"Bind", "Relate"} : b_op' = [b_op EXCEPT ![c] = op]
    /\ b_pc' = [b_pc EXCEPT ![c] = "waiting"]
    /\ UNCHANGED mutex
    /\ UNCHANGED commitVars
    /\ UNCHANGED retryVars
    /\ UNCHANGED extVars

\* variant: the lock taken without looking at its state
MutexFreeAlways == TRUE

\* sync.Mutex: Lock returns only when the mutex is unlocked
MutexFree == mutex = 0

\* lines 39 and 46: cgt.mutex.Lock()
Lock(c) ==
    /\ b_pc[c] = "waiting"
    /\ MutexFree
    /\ mutex' = c
    /\ b_pc' = [b_pc EXCEPT ![c] = "locked"]
    /\ UNCHANGED b_op
    /\ UNCHANGED commitVars
    /\ UNCHANGED retryVars
    /\ UNCHANGED extVars

\* GraphBinder.Bind: the asset is added to the graph
BinderBind(g, a) == [g EXCEPT !.assets = @ \cup {a}]

\* GraphBinder.Relate: the relation is added to the graph, with its endpoints
BinderRelate(g, r) == [g EXCEPT !.assets = @ \cup Endpoints(r), !.relations = @ \cup {r}]

\* lines 40 and 47: the call of the binder, with the arguments of the caller
BinderCall(c) ==
    /\ b_pc[c] = "locked"
    /\ IF b_op[c] = "Bind"
       THEN \E a \in Assets : newGraph' = BinderBind(newGraph, a)
       ELSE \E r \in Relations : newGraph' = BinderRelate(newGraph, r)
    /\ b_pc' = [b_pc EXCEPT ![c] = "bound"]
    /\ UNCHANGED <<mutex, b_op>>
    /\ UNCHANGED <<store, cached, commits, currentGraph, chunkSize, parallelization,
                   pc, bulk, futures, waited, running, ret, schemaUploads, requests, clean,
                   populated, schemaErr, failedPhase, sent, cancelled>>
    /\ UNCHANGED retryVars
    /\ UNCHANGED extVars

\* lines 41 and 48: cgt.mutex.Unlock(), and the return to the caller
Unlock(c) ==
    /\ b_pc[c] = "bound"
    /\ mutex' = 0
    /\ b_pc' = [b_pc EXCEPT ![c] = "idle"]
    /\ b_op' = [b_op EXCEPT ![c] = "none"]
    /\ UNCHANGED commitVars
    /\ UNCHANGED retryVars
    /\ UNCHANGED extVars

NextBind ==
    \E c \in Callers :
        \/ Call(c)
        \/ Lock(c)
        \/ BinderCall(c)
        \/ Unlock(c)

\* A caller holding the lock runs on; a caller waiting for the lock gets it
\* (sync.Mutex hands the lock over to a starving waiter).
FairBind ==
    \A c \in Callers :
        /\ SF_vars(Lock(c))
        /\ WF_vars(BinderCall(c))
        /\ WF_vars(Unlock(c))

SpecBind == InitBind /\ [][NextBind]_vars /\ FairBind

(***************************************************************************)
(* The store shared by two sources (spec 4.3), their asset upserts and     *)
(* removals interleaving at the granularity of the single store operation. *)
(***************************************************************************)
InitProv ==
    /\ InitBind

\* asset upsert, first operation: insert the asset row or get the existing one
UpsertAssetRow(s) ==
    /\ p_op[s] = NoOp
    /\ \E a \in Assets :
         /\ <<s, a>> \notin provRows
         /\ assetRows' = assetRows \cup {a}
         /\ p_op' = [p_op EXCEPT ![s] = [op |-> "upsert", asset |-> a]]
    /\ UNCHANGED provRows
    /\ UNCHANGED <<commitVars, retryVars, bindVars, queryVars>>

\* asset upsert, second operation: insert the provenance row
UpsertProvenanceRow(s) ==
    /\ p_op[s].op = "upsert"
    /\ provRows' = provRows \cup {<<s, p_op[s].asset>>}
    /\ p_op' = [p_op EXCEPT ![s] = NoOp]
    /\ UNCHANGED assetRows
    /\ UNCHANGED <<commitVars, retryVars, bindVars, queryVars>>

\* asset removal, first operation: delete the provenance row
RemoveProvenanceRow(s) ==
    /\ p_op[s] = NoOp
    /\ \E a \in Assets :
         /\ <<s, a>> \in provRows
         /\ provRows' = provRows \ {<<s, a>>}
         /\ p_op' = [p_op EXCEPT ![s] = [op |-> "remove", asset |-> a]]
    /\ UNCHANGED assetRows
    /\ UNCHANGED <<commitVars, retryVars, bindVars, queryVars>>

\* asset removal, second operation: delete the asset row if no provenance
\* row remains for it
RemoveAssetRow(s) ==
    /\ p_op[s].op = "remove"
    /\ assetRows' = IF \E t \in Sources : <<t, p_op[s].asset>> \in provRows
                    THEN assetRows
                    ELSE assetRows \ {p_op[s].asset}
    /\ p_op' = [p_op EXCEPT ![s] = NoOp]
    /\ UNCHANGED provRows
    /\ UNCHANGED <<commitVars, retryVars, bindVars, queryVars>>

NextProv ==
    \E s \in Sources :
        \/ UpsertAssetRow(s)
        \/ UpsertProvenanceRow(s)
        \/ RemoveProvenanceRow(s)
        \/ RemoveAssetRow(s)

SpecProv == InitProv /\ [][NextProv]_vars

(***************************************************************************)
(* The query command of the CLI (queryFunc, lines 186-217 of the main      *)
(* package), its cursor holding up to MaxRows rows.                        *)
(***************************************************************************)
InitQuery ==
    /\ InitBind

\* line 187: the timer of context.WithTimeout(context.Background(), 30*time.Second)
DeadlineFires ==
    /\ q_pc \in {"start", "reading"}
    /\ ~q_fired
    /\ q_fired' = TRUE
    /\ UNCHANGED <<q_pc, q_rows, q_count>>
    /\ UNCHANGED <<commitVars, retryVars, bindVars, provVars>>

\* variant: the handle of the deadline passed to Cursor.Read
ReadContextDeadline == "deadline"

\* line 192: q.Query(ctx, args[0])
QueryContext == "deadline"
\* line 200: r.Cursor.Read(context.Background(), &m)
ReadContext == "background"

\* a handle is done once its deadline has fired; context.Background() never is
HandleDone(h) == h = "deadline" /\ q_fired

\* lines 192-195: the query is run under its handle; any error is fatal
Query ==
    /\ q_pc = "start"
    /\ \/ /\ q_pc' = "fatal"
          /\ UNCHANGED q_rows
       \/ /\ ~HandleDone(QueryContext)
          /\ q_pc' = "reading"
          /\ q_rows' \in 0..MaxRows
    /\ UNCHANGED <<q_fired, q_count>>
    /\ UNCHANGED <<commitVars, retryVars, bindVars, provVars>>

\* lines 198-212: one iteration of the loop over the cursor
CursorRead ==
    /\ q_pc = "reading"
    /\ q_rows > 0
    /\ \/ /\ q_pc' = "fatal"
          /\ UNCHANGED <<q_rows, q_count>>
       \/ /\ ~HandleDone(ReadContext)
          /\ q_rows' = q_rows - 1
          /\ q_count' = q_count + 1
          /\ UNCHANGED q_pc
    /\ UNCHANGED q_fired
    /\ UNCHANGED <<commitVars, retryVars, bindVars, provVars>>

\* lines 214-216: the cursor has no more rows; the summary is printed
PrintSummary ==
    /\ q_pc = "reading"
    /\ q_rows = 0
    /\ q_pc' = "done"
    /\ UNCHANGED <<q_fired, q_rows, q_count>>
    /\ UNCHANGED <<commitVars, retryVars, bindVars, provVars>>

NextQuery ==
    \/ DeadlineFires
    \/ Query
    \/ CursorRead
    \/ PrintSummary

SpecQuery == InitQuery /\ [][NextQuery]_vars

(***************************************************************************)
(* Properties.                                                             *)
(***************************************************************************)
PhaseBKinds == {"DeleteAssets", "InsertRelations"}
PhaseBStarted == (\E t \in InPool : t.phase = "B") \/ requests \cap PhaseBKinds # {}

\* C1: once a phase B task (DeleteAssets, InsertRelations) of a Commit has
\* been handed to the pool or has issued a request, no phase A task of
\* that Commit is still held by a worker: every phase A task has completed.
C1_PhaseBAfterPhaseA ==
    PhaseBStarted => /\ \A t \in InPool : t.phase # "A"
                     /\ pc \in {"B", "done"}

\* a phase B task is in the pool after a phase A of several chunks run by two workers
C1_Witness ==
    /\ \E t \in InPool : t.phase = "B"
    /\ Len(TasksA) >= 2
    /\ parallelization >= 2

\* C2 (as claimed): a call with maxRetries = 10 whose request fails at every
\* attempt gives up after 11 calls of the request.
C2_ElevenAttempts ==
    (r_maxRetries = CommitMaxRetries /\ r_result = "TooManyRetries")
        => r_calls = CommitMaxRetries + 1

\* C3 (as claimed): in a sequence of commits of one source, each from the
\* graph returned by the last successful Commit, the store holds the new
\* graph after every successful Commit, also when earlier commits aborted.
C3_ApplyEqualsReplace ==
    (pc = "done" /\ ret.err = "nil") => store = ret.graph

\* C4: during and after a Commit that started with the store equal to its
\* current graph, every stored relation has both endpoints stored, in every
\* intermediate state and in the final state of an aborted Commit.
C4_EndpointClosure == clean => Closed(store)

\* a Commit aborted in phase B by a chunk failure, the bulk partly applied
C4_Witness ==
    /\ clean
    /\ pc = "done"
    /\ ret.err = "chunk"
    /\ requests \cap PhaseBKinds # {}
    /\ store # currentGraph
    /\ store # populated

BulkIsDifference ==
    /\ Range(bulk.assetUpserts) = populated.assets \ currentGraph.assets
    /\ Range(bulk.assetRemovals) = currentGraph.assets \ populated.assets
    /\ Range(bulk.relationUpserts) = populated.relations \ currentGraph.relations
    /\ Range(bulk.relationRemovals) = currentGraph.relations \ populated.relations

\* C5: a successful Commit started with the store equal to current leaves
\* the store equal to new, and the bulk it computed holds exactly the four
\* set differences of new and current.
C5_CommitYieldsNew ==
    /\ (clean /\ pc = "done" /\ ret.err = "nil") => store = populated
    /\ schemaErr = "nil" => BulkIsDifference

\* a successful Commit whose four bulk lists were all non-empty
C5_Witness ==
    /\ clean
    /\ pc = "done"
    /\ ret.err = "nil"
    /\ \A l \in {bulk.assetUpserts, bulk.assetRemovals,
                 bulk.relationUpserts, bulk.relationRemovals} : Len(l) > 0

\* C6: when UpdateSchema failed, Commit has returned an error and a nil
\* graph, no chunk request was issued or dispatched, no bulk was computed,
\* the store is untouched and the transaction's graphs are unchanged.
C6_SchemaFailureAborts ==
    schemaErr \notin {"none", "nil"} =>
        /\ pc = "done"
        /\ ret = [graph |-> NilGraph, err |-> "UpdateSchema"]
        /\ requests = {}
        /\ InPool = {}
        /\ futures = <<>>
        /\ bulk = NoBulk
        /\ currentGraph = cached
        /\ newGraph = populated
        /\ clean => store = currentGraph

\* the schema upload failed for a transaction whose bulk would not be empty
C6_Witness ==
    /\ schemaErr = "Overload"
    /\ pc = "done"
    /\ populated # currentGraph

\* C7: a successful Commit returns the new graph as populated before the
\* Commit and leaves the internal new graph empty; an unsuccessful Commit
\* returns a nil graph and leaves the internal new graph as it was.
C7_ReturnedGraph ==
    pc = "done" =>
        IF ret.err = "nil"
        THEN ret.graph = populated /\ newGraph = NewGraph
        ELSE ret.graph = NilGraph /\ newGraph = populated

\* a successful Commit of a non-empty new graph that differs from current
C7_Witness ==
    /\ pc = "done"
    /\ ret.err = "nil"
    /\ populated # NewGraph
    /\ populated # currentGraph

\* C8: a Commit with new equal to current dispatches no chunk task and
\* issues no chunk request, uploads the schema exactly once, and, its bulk
\* having been computed (the upload succeeded), returns successfully.
C8_EmptyBulkNoOp ==
    populated = currentGraph =>
        /\ requests = {}
        /\ running = {}
        /\ futures = <<>>
        /\ pc = "done" => /\ schemaUploads = 1
                          /\ store = currentGraph
                          /\ schemaErr = "nil" => (ret.err = "nil" /\ ret.graph = populated)

\* a Commit of a non-empty graph equal to current has returned successfully
C8_Witness ==
    /\ populated = currentGraph
    /\ populated # NewGraph
    /\ pc = "done"
    /\ ret.err = "nil"

\* C9 (as claimed): after a request failed with an error that is neither an
\* overload nor a network error, the call has returned: it is not retried.
C9_OnlyOverloadRetried ==
    (r_maxRetries = CommitMaxRetries /\ r_lastErr \in {"SchemaViolation", "Auth"})
        => r_result = "TooManyRetries"

\* C10 (as claimed): the backoff slept after the failure numbered trials is
\* 1.01^trials x 15 seconds (compared in milliseconds).
C10_ExponentialBackoff ==
    (r_maxRetries = CommitMaxRetries /\ r_sleeps > 0) => r_lastSleep * 1000 = (Pow101(r_trials - 1) * BackoffUnit) \div 1000

InBinder == {c \in Callers : b_pc[c] \in {"locked", "bound"}}

\* C11: at most one caller of Bind or Relate is between Lock and Unlock at
\* any time, and every call that waits for the lock gets it and every call
\* that holds the lock releases it.
C11_MutualExclusion ==
    /\ [](Cardinality(InBinder) <= 1)
    /\ \A c \in Callers : (b_pc[c] = "waiting") ~> (b_pc[c] = "locked")
    /\ \A c \in Callers : (b_pc[c] = "locked") ~> (b_pc[c] = "idle")

\* one caller is in the binder while another waits for the lock
C11_Witness ==
    \E c, d \in Callers :
        /\ c # d
        /\ b_pc[c] = "locked"
        /\ b_pc[d] = "waiting"
        /\ newGraph # NewGraph

\* C12: the chunk tasks of a Commit held by workers, their request in flight
\* or sleeping in the backoff, are never more than its parallelization.
C12_BoundedInFlight == Cardinality(InPool) <= parallelization

\* every worker is busy, one of them in a retry, and a chunk waits to be dispatched
C12_Witness ==
    /\ pc \in {"A", "B"}
    /\ Cardinality(InPool) = parallelization
    /\ Len(futures) < Len(Tasks(pc))
    /\ \E t \in InPool : t.trials > 0

\* C13 (as claimed): once the owning context is cancelled, no chunk is
\* dispatched and no request is retried any more (tasks only end), and a
\* Commit that returns after the cancellation returns a Cancelled error.
C13_CancellationHonoured ==
    [][cancelled => /\ running' \subseteq running
                    /\ (pc # "done" /\ pc' = "done") => ret'.err = "Cancelled"]_vars

\* C16: once a chunk task of phase A has given up, no phase B task is ever
\* dispatched and a returned Commit has returned an error and a nil graph;
\* once a chunk task of phase B has given up, a returned Commit has returned
\* an error and a nil graph.
C16_ChunkFailureAborts ==
    /\ failedPhase = "A" => /\ ~PhaseBStarted
                            /\ pc \in {"A", "done"}
    /\ failedPhase = "B" => pc \in {"B", "done"}
    /\ (failedPhase # "none" /\ pc = "done") => ret = [graph |-> NilGraph, err |-> "chunk"]

\* a Commit that had chunks for phase B has returned after a failure in phase A
C16_Witness ==
    /\ failedPhase = "A"
    /\ pc = "done"
    /\ Len(TasksB) > 0

\* C17 (as claimed): when Commit has returned, no chunk task it dispatched
\* is still held by a worker.
C17_NothingInFlightAfterReturn == pc = "done" => InPool = {}

ListOf(kind) ==
    CASE kind = "InsertAssets"    -> bulk.assetUpserts
      [] kind = "DeleteAssets"    -> bulk.assetRemovals
      [] kind = "InsertRelations" -> bulk.relationUpserts
      [] kind = "DeleteRelations" -> bulk.relationRemovals

RequestKinds == {"InsertAssets", "DeleteAssets", "InsertRelations", "DeleteRelations"}

\* C18: after a successful Commit every item of each of the four lists was
\* sent in exactly one request, of the kind of its list, and every request
\* held between 1 and chunkSize items, all of the list of its kind.
C18_EveryItemInOneChunk ==
    (pc = "done" /\ ret.err = "nil") =>
        /\ \A k \in RequestKinds : \A x \in Range(ListOf(k)) :
              \E q \in BagToSet(sent) :
                  /\ q.kind = k
                  /\ x \in Range(q.items)
                  /\ CopiesIn(q, sent) = 1
                  /\ Cardinality({i \in DOMAIN q.items : q.items[i] = x}) = 1
                  /\ \A p \in BagToSet(sent) :
                        (p.kind = k /\ x \in Range(p.items)) => p = q
        /\ \A q \in BagToSet(sent) :
              /\ q.kind \in RequestKinds
              /\ Len(q.items) >= 1
              /\ Len(q.items) <= chunkSize
              /\ Range(q.items) \subseteq Range(ListOf(q.kind))

\* a successful Commit that sent a list in two chunks, one of them full, and
\* requests in both phases
C18_Witness ==
    /\ pc = "done"
    /\ ret.err = "nil"
    /\ chunkSize = 2
    /\ \E p, q \in BagToSet(sent) : p # q /\ p.kind = q.kind /\ Len(p.items) = chunkSize
    /\ \E q \in BagToSet(sent) : q.kind \in PhaseBKinds

\* C19: every chunk task stays below the bound of attempts, Commit
\* eventually returns the new graph or an error, and every chunk task
\* eventually ends, whatever requests fail.
C19_CommitTerminates ==
    /\ [](\A t \in running : t.trials < CommitMaxRetries)
    /\ <>(pc = "done" /\ ret.err \in {"nil", "chunk", "UpdateSchema"})
    /\ <>[](running = {})

\* a Commit has returned after a chunk task gave up, other chunks having
\* succeeded, and every task has ended
C19_Witness ==
    /\ pc = "done"
    /\ failedPhase # "none"
    /\ sent # EmptyBag
    /\ running = {}

\* C20: the call returns nil exactly when a call of fn succeeded, fn is not
\* called again after a success, and there is one sleep for each failed
\* call and none for a successful one.
C20_RetryResult ==
    /\ (r_result = "nil") <=> (r_successes >= 1)
    /\ r_successes <= 1
    /\ r_successes = 1 => r_lastErr = "nil"
    /\ r_sleeps = r_calls - r_successes

\* a call as made by Commit returned nil after several failed calls
C20_Witness ==
    /\ r_maxRetries = CommitMaxRetries
    /\ r_result = "nil"
    /\ r_sleeps >= 2

AllSourcesIdle == \A s \in Sources : p_op[s] = NoOp

\* C14 (as claimed): no provenance row refers to an asset whose row is
\* deleted (an asset asserted by a source is not deleted by the retraction
\* of another), and between store operations an asset row exists exactly
\* when some provenance row refers to it.
C14_ProvenanceMonotonicity ==
    /\ \A pr \in provRows : pr[2] \in assetRows
    /\ AllSourcesIdle => \A a \in Assets : (a \in assetRows <=> \E s \in Sources : <<s, a>> \in provRows)

\* C15 (as claimed): once the 30 s deadline has fired the query command
\* reads no further row: every Cursor.Read is governed by the deadline.
C15_DeadlineGovernsReads ==
    [][q_fired => q_count' = q_count]_vars

====
